---- MODULE Spec2Model ----
(***************************************************************************)
(* The Playwright page-fetching service (apps/playwright-service/main.py): *)
(* the module-level configuration, the shared browser, and the POST /html  *)
(* handler `root`, one step per await.  A step is the completion of the    *)
(* pending await followed by the synchronous code up to the next await.    *)
(***************************************************************************)
EXTENDS Integers, Sequences, FiniteSets, TLC

(* ------------------------------------------------------------------ *)
(* Values                                                             *)
(* ------------------------------------------------------------------ *)

\* Python's None and a present value: the empty and the one-element tuple.
None == <<>>
Some(v) == <<v>>
Get(o) == o[1]

\* Python truthiness of an optional string (`if PROXY_SERVER and ...`).
TruthyStr(o) == o # None /\ Get(o) # ""

\* Python truthiness of an optional dict, a dict being a set of <<key, value>>.
TruthyDict(o) == o # None /\ Get(o) # {}

\* Python truthiness of an optional str held as a sequence of characters.
TruthyChars(o) == o # None /\ Len(Get(o)) > 0

(* ------------------------------------------------------------------ *)
(* Bounds                                                             *)
(* ------------------------------------------------------------------ *)

\* Requests accepted over the life of the process.
MaxRequests == 2

\* Largest reading of the clock; time.time() never decreases below it.
MaxClock == 1

\* Tasks serving requests at the same time, where requests are concurrent.
NTasks == 2

(* ------------------------------------------------------------------ *)
(* Configuration read from the environment at import                  *)
(* ------------------------------------------------------------------ *)

\* What environ.get(name, None) can give for a proxy variable.
EnvValues == {None, Some(""), Some("http://proxy.test:3128")}

\* What environ.get("BLOCK_MEDIA", "False") can give, as characters.
BlockMediaValues ==
    { <<"F", "a", "l", "s", "e">>, <<"t", "r", "u", "e">>, <<"T", "r", "u", "e">>,
      <<"T", "R", "U", "E">>, <<"1">>, <<>> }

UpperChar(c) ==
    CASE c = "a" -> "A" [] c = "e" -> "E" [] c = "l" -> "L" [] c = "r" -> "R"
      [] c = "s" -> "S" [] c = "t" -> "T" [] c = "u" -> "U" [] OTHER -> c

\* str.upper()
Upper(s) == [i \in 1..Len(s) |-> UpperChar(s[i])]

\* BLOCK_MEDIA = environ.get("BLOCK_MEDIA", "False").upper() == "TRUE"
BlockMediaOf(s) == Upper(s) = <<"T", "R", "U", "E">>

(* ------------------------------------------------------------------ *)
(* The web a page can be navigated to                                 *)
(* ------------------------------------------------------------------ *)

\* Final HTTP statuses the main navigation response can carry.
StatusCodes ==
    {200, 204, 301, 304, 399, 400, 401, 403, 404, 408, 418, 429,
     500, 502, 503, 504, 599}

SiteUrl(code) == "http://site.test/" \o ToString(code)
SlowUrl == "http://slow.test/"
HangUrl == "http://hang.test/"
BlankUrl == "about:blank"
InvalidUrl == "not a url"

StatusUrls == {SiteUrl(c) : c \in StatusCodes}
Urls == StatusUrls \cup {SlowUrl, HangUrl, BlankUrl, InvalidUrl}

\* Milliseconds until the load event; Never for a server that does not answer.
Never == -1
LoadTime(url) ==
    CASE url = SlowUrl -> 5000
      [] url = HangUrl -> Never
      [] url = BlankUrl -> 0
      [] OTHER -> 50

StatusOf(url) ==
    IF url \in StatusUrls THEN CHOOSE c \in StatusCodes : SiteUrl(c) = url ELSE 200

\* The serialized document of the page served at url.
Html(url) == "<html>" \o url \o "</html>"

\* Rendered height of the page at url and of the viewport, in rows of pixels.
ViewportHeight == 1
PageHeight(url) == IF url = BlankUrl THEN 1 ELSE 2

\* The requests a served page makes while it loads, each URL as its pieces:
\* origin, then the separators "/", ".", "?" and the text between them.
PageRequests ==
    { <<"http://cdn.test", "/", "a", ".", ext>> :
        ext \in {"png", "jpg", "jpeg", "gif", "svg", "mp3", "mp4", "avi",
                 "flac", "ogg", "wav", "webm"} }
    \cup { <<"http://cdn.test", "/", "app", ".", "js">>,
           <<"http://cdn.test", "/", "style", ".", "css">>,
           <<"http://cdn.test", "/", "png">>,
           <<"http://cdn.test", "/", "photo", ".", "jpg", "?", "v=1">>,
           <<"http://cdn.test", "/", "api", "?", "next=", "/", "a", ".", "png">> }

\* page.goto(url, wait_until="load", timeout=timeout): raises ("error"), returns
\* the main resource response ("response"), returns None for about:blank
\* ("null"), or does not return ("pending": no timeout and no load event).
Navigate(url, timeout) ==
    IF url = InvalidUrl THEN [kind |-> "error", status |-> 0]
    ELSE IF timeout # 0 /\ (LoadTime(url) = Never \/ LoadTime(url) > timeout)
    THEN [kind |-> "error", status |-> 0]
    ELSE IF LoadTime(url) = Never THEN [kind |-> "pending", status |-> 0]
    ELSE IF url = BlankUrl THEN [kind |-> "null", status |-> 0]
    ELSE [kind |-> "response", status |-> StatusOf(url)]

(* ------------------------------------------------------------------ *)
(* get_error                                                          *)
(* ------------------------------------------------------------------ *)

error_messages ==
    << <<401, "Unauthorized">>, <<403, "Forbidden">>, <<404, "Not Found">>,
       <<408, "Request Timeout">>, <<429, "Too Many Requests">>,
       <<500, "Internal Server Error">>, <<502, "Bad Gateway">>,
       <<503, "Service Unavailable">>, <<504, "Gateway Timeout">> >>

\* get_error(status_code): unset for the success range, the table's string for
\* a listed code, the generic fallback otherwise.
get_error(status_code) ==
    IF status_code >= 200 /\ status_code < 400 THEN None
    ELSE IF \E i \in 1..Len(error_messages) : error_messages[i][1] = status_code
    THEN Some(error_messages[CHOOSE i \in 1..Len(error_messages) :
                                 error_messages[i][1] = status_code][2])
    ELSE Some("Unknown Error (status " \o ToString(status_code) \o ")")

(* ------------------------------------------------------------------ *)
(* Screenshots: the image the browser writes and its base64 text      *)
(* ------------------------------------------------------------------ *)

\* The PNG bytes page.screenshot writes: a signature byte, then one byte per
\* captured row (the whole page with full_page, the viewport without).
PngOf(url, full_page) ==
    LET rows == IF full_page THEN PageHeight(url) ELSE ViewportHeight
        tone == IF url = BlankUrl THEN 255 ELSE 16
    IN  <<137>> \o [i \in 1..rows |-> tone]

B64Alphabet ==
    << "A","B","C","D","E","F","G","H","I","J","K","L","M","N","O","P",
       "Q","R","S","T","U","V","W","X","Y","Z","a","b","c","d","e","f",
       "g","h","i","j","k","l","m","n","o","p","q","r","s","t","u","v",
       "w","x","y","z","0","1","2","3","4","5","6","7","8","9","+","/" >>

B64Char(n) == B64Alphabet[n + 1]

\* The four characters of one group of one to three bytes.
B64Group(g) ==
    LET b1 == g[1]
        b2 == IF Len(g) >= 2 THEN g[2] ELSE 0
        b3 == IF Len(g) >= 3 THEN g[3] ELSE 0
    IN  << B64Char(b1 \div 4),
           B64Char((b1 % 4) * 16 + b2 \div 16),
           IF Len(g) >= 2 THEN B64Char((b2 % 16) * 4 + b3 \div 64) ELSE "=",
           IF Len(g) >= 3 THEN B64Char(b3 % 64) ELSE "=" >>

RECURSIVE b64encode(_)
\* base64.b64encode(data).decode('utf-8'), as a sequence of characters.
b64encode(data) ==
    IF Len(data) = 0 THEN <<>>
    ELSE IF Len(data) <= 3 THEN B64Group(data)
    ELSE B64Group(SubSeq(data, 1, 3)) \o b64encode(SubSeq(data, 4, Len(data)))

\* '{}/screenshot_{}.png'.format(tempfile.gettempdir(), time.time())
TmpFile(now) == "/tmp/screenshot_" \o ToString(now) \o ".png"

(* ------------------------------------------------------------------ *)
(* Request bodies (UrlModel)                                          *)
(* ------------------------------------------------------------------ *)

\* A header value as the JSON body carries it: its type and its text.
StrValue(s) == [t |-> "str", repr |-> s]
IntValue(s) == [t |-> "int", repr |-> s]

GoodHeaders == {<<"X-Test", StrValue("1")>>}
BadHeaders == {<<"X-Test", IntValue("1")>>}

\* UrlModel(url=url) with the model's defaults.
UrlModel(url) ==
    [url |-> url, wait_after_load |-> 0, timeout |-> 15000, headers |-> None,
     screenshot |-> FALSE, screenshot_full_page |-> FALSE]

\* Every combination of the optional fields against four kinds of target.
FlagBodies ==
    { [UrlModel(u) EXCEPT !.wait_after_load = w, !.headers = h,
                          !.screenshot = s, !.screenshot_full_page = f] :
        u \in {SiteUrl(200), SiteUrl(404), HangUrl, BlankUrl},
        w \in {0, 500}, h \in {None, Some(GoodHeaders)},
        s \in BOOLEAN, f \in BOOLEAN }

\* Every target with the defaults, and the remaining edge values.
EdgeBodies ==
    { UrlModel(u) : u \in Urls }
    \cup { [UrlModel(SlowUrl) EXCEPT !.timeout = 100],
           [UrlModel(SiteUrl(200)) EXCEPT !.headers = Some({})],
           [UrlModel(SiteUrl(200)) EXCEPT !.headers = Some(BadHeaders)],
           [UrlModel(SiteUrl(503)) EXCEPT !.wait_after_load = 500,
                                          !.screenshot = TRUE] }

Bodies == FlagBodies \cup EdgeBodies

\* The bodies used where only the configuration varies.
PlainBodies ==
    { UrlModel(SiteUrl(200)), UrlModel(HangUrl),
      [UrlModel(SiteUrl(200)) EXCEPT !.wait_after_load = 500,
                                     !.headers = Some(GoodHeaders),
                                     !.screenshot = TRUE] }

\* The bodies used where requests run concurrently: a navigation that times
\* out, a viewport capture with headers, and a full-page capture of a 404
\* after a wait.
ConcBodies ==
    { [UrlModel(HangUrl) EXCEPT !.timeout = 100],
      [UrlModel(SiteUrl(200)) EXCEPT !.headers = Some(GoodHeaders),
                                     !.screenshot = TRUE],
      [UrlModel(SiteUrl(404)) EXCEPT !.wait_after_load = 500,
                                     !.screenshot_full_page = TRUE] }

(* ------------------------------------------------------------------ *)
(* State                                                              *)
(* ------------------------------------------------------------------ *)

VARIABLES
    PROXY_SERVER,     \* module globals read from the environment at import
    PROXY_USERNAME,
    PROXY_PASSWORD,
    BLOCK_MEDIA,
    app,              \* "starting" | "serving" | "stopped" | "failed"
    browser,          \* the module global `browser`: None or the Browser
    contexts,         \* the browser's contexts, by creation order
    files,            \* the temporary directory: path -> bytes
    clock,            \* the last reading of time.time()
    accepted,         \* requests accepted so far
    probe,            \* the health response on its way to the prober, or None
    req               \* per task: the locals of `root`, its position, its reply

config == <<PROXY_SERVER, PROXY_USERNAME, PROXY_PASSWORD, BLOCK_MEDIA>>
vars == <<PROXY_SERVER, PROXY_USERNAME, PROXY_PASSWORD, BLOCK_MEDIA,
          app, browser, contexts, files, clock, accepted, probe, req>>

\* The "**/*.{...}" pattern handed to context.route.
MediaGlob == "**/*.{png,jpg,jpeg,gif,svg,mp3,mp4,avi,flac,ogg,wav,webm}"

\* The extensions between the braces of MediaGlob.
MediaExtensions ==
    {"png", "jpg", "jpeg", "gif", "svg", "mp3", "mp4", "avi", "flac", "ogg",
     "wav", "webm"}

\* The pieces of url after its last "/".
LastSegment(url) ==
    LET last == CHOOSE i \in DOMAIN url :
                  url[i] = "/" /\ \A j \in DOMAIN url : url[j] = "/" => j <= i
    IN  SubSeq(url, last + 1, Len(url))

\* Whether the glob pattern matches url: the pattern is matched against the
\* whole URL text, so "**/*.{...}" asks that what follows the last "/" end in
\* "." and one of the extensions.
GlobMatches(pattern, url) ==
    /\ pattern = MediaGlob
    /\ LET seg == LastSegment(url) IN
         /\ Len(seg) >= 2
         /\ seg[Len(seg) - 1] = "."
         /\ seg[Len(seg)] \in MediaExtensions

\* The handler of every route aborts: a request is aborted when a route of
\* the context matches its URL.
Aborted(routes, url) == \E pattern \in routes : GlobMatches(pattern, url)

\* A task with no request: `root` is not running.
IdleTask ==
    [pc |-> "idle", body |-> None, context |-> None, page |-> None,
     page_status_code |-> None, page_error |-> None, screenshot |-> None,
     page_content |-> None, tmp_file |-> None, reply |-> None, trace |-> <<>>]

Tasks == DOMAIN req

InFlight(t) == req[t].pc \notin {"idle", "done", "failed"}

\* The module's state after import, for the given environments and tasks.
InitWith(proxyValues, blockValues, tasks) ==
    /\ PROXY_SERVER \in proxyValues
    /\ PROXY_USERNAME \in proxyValues
    /\ PROXY_PASSWORD \in proxyValues
    /\ \E s \in blockValues : BLOCK_MEDIA = BlockMediaOf(s)
    /\ app = "starting"
    /\ browser = None
    /\ contexts = <<>>
    /\ files = <<>>
    /\ clock = 0
    /\ accepted = 0
    /\ probe = None
    /\ req = [t \in tasks |-> IdleTask]

(* ------------------------------------------------------------------ *)
(* Process lifecycle                                                  *)
(* ------------------------------------------------------------------ *)

\* startup_event: the browser is launched and bound to the global.
startup_event ==
    /\ app = "starting"
    /\ browser' = Some([connected |-> TRUE])
    /\ app' = "serving"
    /\ UNCHANGED <<config, probe, contexts, files, clock, accepted, req>>

\* startup_event raises: the launch fails, the global stays None and the
\* application does not start.
startup_event_raises ==
    /\ app = "starting"
    /\ app' = "failed"
    /\ UNCHANGED <<config, probe, browser, contexts, files, clock, accepted, req>>

\* shutdown_event: await browser.close(), once no request is in flight.
shutdown_event ==
    /\ app = "serving"
    /\ \A t \in Tasks : ~InFlight(t)
    /\ browser' = Some([connected |-> FALSE])
    /\ app' = "stopped"
    /\ UNCHANGED <<config, probe, contexts, files, clock, accepted, req>>

(* ------------------------------------------------------------------ *)
(* GET /health/liveness, GET /health/readiness                        *)
(* ------------------------------------------------------------------ *)

\* The two responses of readiness_probe and the one of liveness_probe.
Ok == [status_code |-> 200, content |-> [status |-> "ok"]]
ServiceUnavailable ==
    [status_code |-> 503, content |-> [status |-> "Service Unavailable"]]

\* readiness_probe answering ok whatever the browser is.
ReadinessAlwaysOk(b) == Ok

\* if browser: ok, 200; else: Service Unavailable, 503. A Browser object is
\* truthy, connected or not; None is not.
Readiness(b) == IF b # None THEN Ok ELSE ServiceUnavailable

\* liveness_probe: the answer does not look at any state. The handlers are
\* functions of the module and can be called in any state of the application.
liveness_probe ==
    /\ probe' = Some([path |-> "/health/liveness", response |-> Ok])
    /\ UNCHANGED <<config, app, browser, contexts, files, clock, accepted, req>>

\* readiness_probe: reads the global browser.
readiness_probe ==
    /\ probe' = Some([path |-> "/health/readiness", response |-> Readiness(browser)])
    /\ UNCHANGED <<config, app, browser, contexts, files, clock, accepted, req>>

(* ------------------------------------------------------------------ *)
(* POST /html: root                                                   *)
(* ------------------------------------------------------------------ *)

\* UseProxy with `or` in place of `and`.
UseProxyAny ==
    TruthyStr(PROXY_SERVER) \/ TruthyStr(PROXY_USERNAME) \/ TruthyStr(PROXY_PASSWORD)

\* if PROXY_SERVER and PROXY_USERNAME and PROXY_PASSWORD
UseProxy ==
    TruthyStr(PROXY_SERVER) /\ TruthyStr(PROXY_USERNAME) /\ TruthyStr(PROXY_PASSWORD)

\* The proxy argument of browser.new_context: the three globals as they are.
ProxySettings ==
    [server |-> PROXY_SERVER, username |-> PROXY_USERNAME,
     password |-> PROXY_PASSWORD]

\* if body.headers
HasHeaders(body) == TruthyDict(body.headers)

\* page.set_extra_http_headers accepts string values only.
HeadersAccepted(headers) == \A kv \in headers : kv[2].t = "str"

\* if body.wait_after_load > 0
ShouldWait(body) == body.wait_after_load > 0

\* WantsScreenshot testing body.screenshot alone.
WantsScreenshotFlagOnly(body) == body.screenshot

\* if body.screenshot or body.screenshot_full_page
WantsScreenshot(body) == body.screenshot \/ body.screenshot_full_page

\* Classify with the result never bound: page_error stays None.
ClassifyDropped(page_status_code) == None

\* Classify taking the server's reason phrase for every status of 400 and up.
ClassifyReasonPhrase(page_status_code) ==
    CASE page_status_code < 400 -> None
      [] page_status_code = 404 -> Some("Not Found")
      [] page_status_code = 418 -> Some("I'm a teapot")
      [] OTHER -> Some("Error")

\* page_error = get_error(page_status_code)
Classify(page_status_code) == get_error(page_status_code)

\* json_compatible_item_data, with the screenshot key only for a truthy value.
ItemData(page_content, page_status_code, page_error, screenshot) ==
    IF TruthyChars(screenshot)
    THEN [content |-> Get(page_content), pageStatusCode |-> Get(page_status_code),
          pageError |-> page_error, screenshot |-> Get(screenshot)]
    ELSE [content |-> Get(page_content), pageStatusCode |-> Get(page_status_code),
          pageError |-> page_error]

\* JSONResponse(content=...), status 200.
JSONResponse(item) == [status_code |-> 200, content |-> item]

\* What the framework answers when `root` raises.
ServerError == [status_code |-> 500, content |-> [detail |-> "Internal Server Error"]]

\* The task's locals after the pending await returned: step goes on the trace.
Returned(r, step) == [r EXCEPT !.trace = Append(@, step)]

\* The task's state after an exception left `root` at step: nothing after the
\* raising statement runs, and the framework answers for the handler.
Raised(r, step) ==
    [r EXCEPT !.pc = "failed", !.reply = Some(ServerError),
              !.trace = Append(@, step \o "!")]

\* The request is dispatched to `root` on task t: locals start unset.
Receive(t, body) ==
    /\ app = "serving"
    /\ ~InFlight(t)
    /\ accepted < MaxRequests
    /\ accepted' = accepted + 1
    /\ req' = [req EXCEPT ![t] = [IdleTask EXCEPT !.pc = "new_context",
                                                   !.body = Some(body)]]
    /\ UNCHANGED <<config, probe, app, browser, contexts, files, clock>>

\* root_new_context taking an open context of the browser when there is one.
root_new_context_pooled(t) ==
    /\ req[t].pc = "new_context"
    /\ IF \E i \in DOMAIN contexts : contexts[i].open
       THEN /\ contexts' = contexts
            /\ req' = [req EXCEPT ![t] =
                         [Returned(@, "new_context") EXCEPT
                            !.context = Some(CHOOSE i \in DOMAIN contexts : contexts[i].open),
                            !.pc = IF BLOCK_MEDIA THEN "route" ELSE "new_page"]]
       ELSE /\ contexts' = Append(contexts,
                                  [proxy |-> IF UseProxy THEN Some(ProxySettings) ELSE None,
                                   routes |-> {}, open |-> TRUE])
            /\ req' = [req EXCEPT ![t] =
                         [Returned(@, "new_context") EXCEPT
                            !.context = Some(Len(contexts) + 1),
                            !.pc = IF BLOCK_MEDIA THEN "route" ELSE "new_page"]]
    /\ UNCHANGED <<config, probe, app, browser, files, clock, accepted>>

\* context = await browser.new_context(...), with or without the proxy.
root_new_context(t) ==
    /\ req[t].pc = "new_context"
    /\ contexts' = Append(contexts,
                          [proxy |-> IF UseProxy THEN Some(ProxySettings) ELSE None,
                           routes |-> {}, open |-> TRUE])
    /\ req' = [req EXCEPT ![t] =
                 [Returned(@, "new_context") EXCEPT
                    !.context = Some(Len(contexts) + 1),
                    !.pc = IF BLOCK_MEDIA THEN "route" ELSE "new_page"]]
    /\ UNCHANGED <<config, probe, app, browser, files, clock, accepted>>

\* await context.route(pattern, handler=abort)
root_route(t) ==
    /\ req[t].pc = "route"
    /\ contexts' = [contexts EXCEPT ![Get(req[t].context)].routes = @ \cup {MediaGlob}]
    /\ req' = [req EXCEPT ![t] = [Returned(@, "route") EXCEPT !.pc = "new_page"]]
    /\ UNCHANGED <<config, probe, app, browser, files, clock, accepted>>

\* page = await context.new_page()
root_new_page(t) ==
    /\ req[t].pc = "new_page"
    /\ req' = [req EXCEPT ![t] =
                 [Returned(@, "new_page") EXCEPT
                    !.page = Some([context |-> Get(req[t].context),
                                   extra_http_headers |-> None, url |-> BlankUrl,
                                   aborted |-> {}, fetched |-> {}]),
                    !.pc = IF HasHeaders(Get(req[t].body))
                           THEN "set_extra_http_headers" ELSE "goto"]]
    /\ UNCHANGED <<config, probe, app, browser, contexts, files, clock, accepted>>

\* await page.set_extra_http_headers(body.headers)
root_set_extra_http_headers(t) ==
    /\ req[t].pc = "set_extra_http_headers"
    /\ LET headers == Get(Get(req[t].body).headers) IN
       req' = [req EXCEPT ![t] =
                 IF HeadersAccepted(headers)
                 THEN [Returned(@, "set_extra_http_headers") EXCEPT
                         !.page = Some([Get(@) EXCEPT !.extra_http_headers = Some(headers)]),
                         !.pc = "goto"]
                 ELSE Raised(@, "set_extra_http_headers")]
    /\ UNCHANGED <<config, probe, app, browser, contexts, files, clock, accepted>>

\* AfterGoto with the failed navigation attempted again.
AfterGotoRetried(r, nav) ==
    CASE nav.kind = "error" -> [r EXCEPT !.trace = Append(@, "goto!")]
      [] nav.kind = "null" -> Raised(Returned(r, "goto"), "status")
      [] OTHER ->
           [Returned(r, "goto") EXCEPT
              !.page = Some([Get(@) EXCEPT !.url = Get(r.body).url]),
              !.page_status_code = Some(nav.status),
              !.page_error = Classify(nav.status),
              !.screenshot = None,
              !.pc = IF ShouldWait(Get(r.body)) THEN "wait_for_timeout" ELSE "content"]

\* AfterGoto raising for a response whose status is 400 or more.
AfterGotoRaiseForStatus(r, nav) ==
    CASE nav.kind = "error" -> Raised(r, "goto")
      [] nav.kind = "null" -> Raised(Returned(r, "goto"), "status")
      [] nav.status >= 400 -> Raised(Returned(r, "goto"), "status")
      [] OTHER ->
           [Returned(r, "goto") EXCEPT
              !.page = Some([Get(@) EXCEPT !.url = Get(r.body).url]),
              !.page_status_code = Some(nav.status),
              !.page_error = Classify(nav.status),
              !.screenshot = None,
              !.pc = IF ShouldWait(Get(r.body)) THEN "wait_for_timeout" ELSE "content"]

\* The task's locals once `await page.goto(...)` ended with outcome nav:
\* an exception leaves `root`; None has no .status; a response is classified
\* and the handler goes on to the wait or to the extraction.
AfterGoto(r, nav) ==
    CASE nav.kind = "error" -> Raised(r, "goto")
      [] nav.kind = "null" -> Raised(Returned(r, "goto"), "status")
      [] OTHER ->
           [Returned(r, "goto") EXCEPT
              !.page = Some([Get(@) EXCEPT !.url = Get(r.body).url]),
              !.page_status_code = Some(nav.status),
              !.page_error = Classify(nav.status),
              !.screenshot = None,
              !.pc = IF ShouldWait(Get(r.body)) THEN "wait_for_timeout" ELSE "content"]

\* The page of a task whose navigation returned a response has made its
\* requests through the routes of its context.
WithRequests(r, routes) ==
    IF r.page_status_code = None THEN r
    ELSE [r EXCEPT !.page = Some([Get(@) EXCEPT
            !.aborted = {u \in PageRequests : Aborted(routes, u)},
            !.fetched = {u \in PageRequests : ~Aborted(routes, u)}])]

\* root_goto where a failed navigation cancels every request in flight.
root_goto_cancels_all(t) ==
    /\ req[t].pc = "goto"
    /\ LET nav == Navigate(Get(req[t].body).url, Get(req[t].body).timeout) IN
         /\ nav.kind # "pending"
         /\ req' = [u \in Tasks |->
                      IF u = t
                      THEN WithRequests(AfterGoto(req[t], nav),
                                        contexts[Get(req[t].page).context].routes)
                      ELSE IF nav.kind = "error" /\ InFlight(u)
                      THEN Raised(req[u], "goto")
                      ELSE req[u]]
    /\ UNCHANGED <<config, probe, app, browser, contexts, files, clock, accepted>>

\* response = await page.goto(body.url, wait_until="load", timeout=body.timeout)
root_goto(t) ==
    /\ req[t].pc = "goto"
    /\ LET nav == Navigate(Get(req[t].body).url, Get(req[t].body).timeout) IN
         /\ nav.kind # "pending"
         /\ req' = [req EXCEPT ![t] =
                      WithRequests(AfterGoto(@, nav),
                                   contexts[Get(req[t].page).context].routes)]
    /\ UNCHANGED <<config, probe, app, browser, contexts, files, clock, accepted>>

\* await page.wait_for_timeout(body.wait_after_load)
root_wait_for_timeout(t) ==
    /\ req[t].pc = "wait_for_timeout"
    /\ req' = [req EXCEPT ![t] = [Returned(@, "wait_for_timeout") EXCEPT !.pc = "content"]]
    /\ UNCHANGED <<config, probe, app, browser, contexts, files, clock, accepted>>

\* What time.time() can read next: the clock does not run backwards.
ClockReadings == {clock} \cup (IF clock < MaxClock THEN {clock + 1} ELSE {})

\* The task's locals once `await page.content()` returned, with the reading
\* `now` of the clock taken for the screenshot's path when one is wanted.
AfterContent(r, now) ==
    IF WantsScreenshot(Get(r.body))
    THEN [Returned(r, "content") EXCEPT
            !.page_content = Some(Html(Get(r.page).url)),
            !.tmp_file = Some(TmpFile(now)),
            !.pc = "screenshot"]
    ELSE [Returned(r, "content") EXCEPT
            !.page_content = Some(Html(Get(r.page).url)),
            !.pc = "close"]

\* page_content = await page.content(), then the screenshot branch is entered
\* and the path is built from the clock, or the close is awaited.
root_content(t) ==
    /\ req[t].pc = "content"
    /\ \E now \in ClockReadings :
         /\ clock' = IF WantsScreenshot(Get(req[t].body)) THEN now ELSE clock
         /\ req' = [req EXCEPT ![t] = AfterContent(@, now)]
    /\ UNCHANGED <<config, probe, app, browser, contexts, files, accepted>>

\* The directory after a file with these bytes is written at path.
WriteFile(dir, path, bytes) ==
    [p \in DOMAIN dir \cup {path} |-> IF p = path THEN bytes ELSE dir[p]]

\* page_screenshot with full_page taken from the screenshot flag.
page_screenshot_by_flag(t) ==
    /\ req[t].pc = "screenshot"
    /\ files' = WriteFile(files, Get(req[t].tmp_file),
                          PngOf(Get(req[t].page).url, Get(req[t].body).screenshot))
    /\ req' = [req EXCEPT ![t].pc = "open"]
    /\ UNCHANGED <<config, probe, app, browser, contexts, clock, accepted>>

\* page.screenshot(path=tmp_file, full_page=...) writes the image; the task
\* is resumed afterwards.
page_screenshot(t) ==
    /\ req[t].pc = "screenshot"
    /\ files' = WriteFile(files, Get(req[t].tmp_file),
                          PngOf(Get(req[t].page).url,
                                Get(req[t].body).screenshot_full_page))
    /\ req' = [req EXCEPT ![t].pc = "open"]
    /\ UNCHANGED <<config, probe, app, browser, contexts, clock, accepted>>

\* page_screenshot_raises with the exception swallowed and the close awaited.
page_screenshot_swallowed(t) ==
    /\ req[t].pc = "screenshot"
    /\ req' = [req EXCEPT ![t] = [Returned(@, "screenshot!") EXCEPT !.pc = "close"]]
    /\ UNCHANGED <<config, probe, app, browser, contexts, files, clock, accepted>>

\* page.screenshot raises: the exception leaves `root`.
page_screenshot_raises(t) ==
    /\ req[t].pc = "screenshot"
    /\ req' = [req EXCEPT ![t] = Raised(@, "screenshot")]
    /\ UNCHANGED <<config, probe, app, browser, contexts, files, clock, accepted>>

\* The task's locals once the screenshot await returned and the file at
\* tmp_file, holding bytes, was read back and encoded.
AfterScreenshot(r, bytes) ==
    [Returned(r, "screenshot") EXCEPT
       !.screenshot = Some(b64encode(bytes)), !.pc = "close"]

\* with open(tmp_file, "rb") as image_file: screenshot = b64encode(...)
root_open(t) ==
    /\ req[t].pc = "open"
    /\ req' = [req EXCEPT ![t] = AfterScreenshot(@, files[Get(req[t].tmp_file)])]
    /\ UNCHANGED <<config, probe, app, browser, contexts, files, clock, accepted>>

\* The task's state once `await context.close()` returned: the item is built
\* and returned as the response.
AfterClose(r) ==
    [Returned(r, "close") EXCEPT
       !.pc = "done",
       !.reply = Some(JSONResponse(ItemData(r.page_content, r.page_status_code,
                                            r.page_error, r.screenshot)))]

\* root_close closing the browser along with the context.
root_close_with_browser(t) ==
    /\ req[t].pc = "close"
    /\ contexts' = [contexts EXCEPT ![Get(req[t].context)].open = FALSE]
    /\ browser' = Some([connected |-> FALSE])
    /\ req' = [req EXCEPT ![t] = AfterClose(@)]
    /\ UNCHANGED <<config, probe, app, files, clock, accepted>>

\* await context.close(), then return JSONResponse(...)
root_close(t) ==
    /\ req[t].pc = "close"
    /\ contexts' = [contexts EXCEPT ![Get(req[t].context)].open = FALSE]
    /\ req' = [req EXCEPT ![t] = AfterClose(@)]
    /\ UNCHANGED <<config, probe, app, browser, files, clock, accepted>>

\* context.close() raises: the exception leaves `root`.
context_close_raises(t) ==
    /\ req[t].pc = "close"
    /\ req' = [req EXCEPT ![t] = Raised(@, "close")]
    /\ UNCHANGED <<config, probe, app, browser, contexts, files, clock, accepted>>

(* ------------------------------------------------------------------ *)
(* Specifications                                                     *)
(* ------------------------------------------------------------------ *)

\* One request at a time, every body, with and without proxy and blocking.
Init ==
    InitWith({None, Some("http://proxy.test:3128")},
             {<<"F", "a", "l", "s", "e">>, <<"t", "r", "u", "e">>}, {1})

Next ==
    \/ startup_event
    \/ startup_event_raises
    \/ shutdown_event
    \/ \E t \in Tasks : \E body \in Bodies : Receive(t, body)
    \/ \E t \in Tasks : root_new_context(t)
    \/ \E t \in Tasks : root_route(t)
    \/ \E t \in Tasks : root_new_page(t)
    \/ \E t \in Tasks : root_set_extra_http_headers(t)
    \/ \E t \in Tasks : root_goto(t)
    \/ \E t \in Tasks : root_wait_for_timeout(t)
    \/ \E t \in Tasks : root_content(t)
    \/ \E t \in Tasks : page_screenshot(t)
    \/ \E t \in Tasks : page_screenshot_raises(t)
    \/ \E t \in Tasks : root_open(t)
    \/ \E t \in Tasks : root_close(t)
    \/ \E t \in Tasks : context_close_raises(t)

Spec == Init /\ [][Next]_vars

\* One request at a time, plain bodies, every environment.
InitEnv == InitWith(EnvValues, BlockMediaValues, {1})

NextEnv ==
    \/ startup_event
    \/ startup_event_raises
    \/ shutdown_event
    \/ \E t \in Tasks : \E body \in PlainBodies : Receive(t, body)
    \/ \E t \in Tasks : root_new_context(t)
    \/ \E t \in Tasks : root_route(t)
    \/ \E t \in Tasks : root_new_page(t)
    \/ \E t \in Tasks : root_set_extra_http_headers(t)
    \/ \E t \in Tasks : root_goto(t)
    \/ \E t \in Tasks : root_wait_for_timeout(t)
    \/ \E t \in Tasks : root_content(t)
    \/ \E t \in Tasks : page_screenshot(t)
    \/ \E t \in Tasks : page_screenshot_raises(t)
    \/ \E t \in Tasks : root_open(t)
    \/ \E t \in Tasks : root_close(t)
    \/ \E t \in Tasks : context_close_raises(t)

SpecEnv == InitEnv /\ [][NextEnv]_vars

\* NTasks concurrent requests, the concurrent bodies, media blocking on.
InitConc == InitWith({None}, {<<"t", "r", "u", "e">>}, 1..NTasks)

NextConc ==
    \/ startup_event
    \/ startup_event_raises
    \/ shutdown_event
    \/ \E t \in Tasks : \E body \in ConcBodies : Receive(t, body)
    \/ \E t \in Tasks : root_new_context(t)
    \/ \E t \in Tasks : root_route(t)
    \/ \E t \in Tasks : root_new_page(t)
    \/ \E t \in Tasks : root_set_extra_http_headers(t)
    \/ \E t \in Tasks : root_goto(t)
    \/ \E t \in Tasks : root_wait_for_timeout(t)
    \/ \E t \in Tasks : root_content(t)
    \/ \E t \in Tasks : page_screenshot(t)
    \/ \E t \in Tasks : page_screenshot_raises(t)
    \/ \E t \in Tasks : root_open(t)
    \/ \E t \in Tasks : root_close(t)
    \/ \E t \in Tasks : context_close_raises(t)

SpecConc == InitConc /\ [][NextConc]_vars

\* The concurrent bodies and a navigation with the timeout disabled
\* (timeout: int is not validated, and page.goto takes 0 as no timeout).
LiveBodies == ConcBodies \cup { [UrlModel(HangUrl) EXCEPT !.timeout = 0] }

\* The next step of the task's handler, whichever await it is suspended at.
Step(t) ==
    \/ root_new_context(t)
    \/ root_route(t)
    \/ root_new_page(t)
    \/ root_set_extra_http_headers(t)
    \/ root_goto(t)
    \/ root_wait_for_timeout(t)
    \/ root_content(t)
    \/ page_screenshot(t)
    \/ page_screenshot_raises(t)
    \/ root_open(t)
    \/ root_close(t)
    \/ context_close_raises(t)

NextLive ==
    \/ startup_event
    \/ startup_event_raises
    \/ shutdown_event
    \/ \E t \in Tasks : \E body \in LiveBodies : Receive(t, body)
    \/ \E t \in Tasks : root_new_context(t)
    \/ \E t \in Tasks : root_route(t)
    \/ \E t \in Tasks : root_new_page(t)
    \/ \E t \in Tasks : root_set_extra_http_headers(t)
    \/ \E t \in Tasks : root_goto(t)
    \/ \E t \in Tasks : root_wait_for_timeout(t)
    \/ \E t \in Tasks : root_content(t)
    \/ \E t \in Tasks : page_screenshot(t)
    \/ \E t \in Tasks : page_screenshot_raises(t)
    \/ \E t \in Tasks : root_open(t)
    \/ \E t \in Tasks : root_close(t)
    \/ \E t \in Tasks : context_close_raises(t)

\* The event loop resumes every task whose awaited operation has completed:
\* a step of a task that stays possible is eventually taken.
SpecLive ==
    /\ InitConc
    /\ [][NextLive]_vars
    /\ \A t \in 1..NTasks : WF_vars(Step(t))

\* One request at a time, media blocking on, with the health probes called in
\* every state of the application.
InitHealth == InitWith({None}, {<<"t", "r", "u", "e">>}, {1})

NextHealth ==
    \/ startup_event
    \/ startup_event_raises
    \/ shutdown_event
    \/ liveness_probe
    \/ readiness_probe
    \/ \E t \in Tasks : \E body \in PlainBodies : Receive(t, body)
    \/ \E t \in Tasks : root_new_context(t)
    \/ \E t \in Tasks : root_route(t)
    \/ \E t \in Tasks : root_new_page(t)
    \/ \E t \in Tasks : root_set_extra_http_headers(t)
    \/ \E t \in Tasks : root_goto(t)
    \/ \E t \in Tasks : root_wait_for_timeout(t)
    \/ \E t \in Tasks : root_content(t)
    \/ \E t \in Tasks : page_screenshot(t)
    \/ \E t \in Tasks : page_screenshot_raises(t)
    \/ \E t \in Tasks : root_open(t)
    \/ \E t \in Tasks : root_close(t)
    \/ \E t \in Tasks : context_close_raises(t)

SpecHealth == InitHealth /\ [][NextHealth]_vars

(* ------------------------------------------------------------------ *)
(* Properties                                                         *)
(* ------------------------------------------------------------------ *)

\* How many entries of the trace are among the given steps.
Count(trace, steps) == Cardinality({i \in DOMAIN trace : trace[i] \in steps})

Has(trace, step) == \E i \in DOMAIN trace : trace[i] = step

Terminated(t) == req[t].pc \in {"done", "failed"}

\* The task answered with a RenderResult (a 200 carrying the item).
Rendered(t) == req[t].reply # None /\ Get(req[t].reply).status_code = 200

\* The item of a task that answered with a RenderResult.
Item(t) == Get(req[t].reply).content

\* C1: every terminated request opened exactly one context and closed it
\* exactly once, so no terminated request leaves its context open.
C1_ContextClosedOnEveryExit ==
    \A t \in Tasks :
      Terminated(t) =>
        /\ Count(req[t].trace, {"new_context"}) = 1
        /\ Count(req[t].trace, {"close"}) = 1
        /\ ~contexts[Get(req[t].context)].open

\* C2: navigation is attempted at most once per request, and a request whose
\* navigation raised has failed at that point with no RenderResult.
C2_NavigationNotRetried ==
    \A t \in Tasks :
      /\ Count(req[t].trace, {"goto", "goto!"}) <= 1
      /\ Has(req[t].trace, "goto!") =>
           /\ req[t].pc = "failed"
           /\ req[t].trace[Len(req[t].trace)] = "goto!"
           /\ req[t].reply # None
           /\ ~Rendered(t)

C2_Witness ==
    \E t \in Tasks :
      /\ Has(req[t].trace, "goto!")
      /\ req[t].pc = "failed"
      /\ Get(req[t].body).url = HangUrl

\* C3: a reply is either the server error or a complete RenderResult: content
\* and status of the page navigated to, with the screenshot whenever one was
\* requested; a failed header application or screenshot ends in the error.
C3_NoPartialResult ==
    \A t \in Tasks :
      /\ Rendered(t) =>
           /\ req[t].pc = "done"
           /\ Has(req[t].trace, "goto")
           /\ Item(t).content = Html(Get(req[t].body).url)
           /\ Item(t).pageStatusCode = StatusOf(Get(req[t].body).url)
           /\ (Get(req[t].body).screenshot \/ Get(req[t].body).screenshot_full_page)
                => "screenshot" \in DOMAIN Item(t)
      /\ (Has(req[t].trace, "set_extra_http_headers!") \/ Has(req[t].trace, "screenshot!"))
           => /\ req[t].pc = "failed"
              /\ ~Rendered(t)
      /\ req[t].pc = "failed" => req[t].reply = Some(ServerError)

C3_Witness ==
    \E t \in Tasks :
      /\ req[t].pc = "failed"
      /\ Has(req[t].trace, "screenshot!")
      /\ req[t].page_content # None
      /\ req[t].reply = Some(ServerError)

StepsOf(body) ==
    <<"new_context">>
      \o (IF BLOCK_MEDIA THEN <<"route">> ELSE <<>>)
      \o <<"new_page">>
      \o (IF body.headers \notin {None, Some({})}
          THEN <<"set_extra_http_headers">> ELSE <<>>)
      \o <<"goto">>
      \o (IF body.wait_after_load > 0 THEN <<"wait_for_timeout">> ELSE <<>>)
      \o <<"content">>
      \o (IF body.screenshot \/ body.screenshot_full_page
          THEN <<"screenshot">> ELSE <<>>)
      \o <<"close">>

\* C5: a navigation answered with any status, success or not, is not a
\* failure: the request fails afterwards only in the screenshot or the close,
\* and otherwise returns the status, its classification and the content after
\* the same steps as any other status.
C5_NonSuccessStatusIsAResult ==
    \A t \in Tasks :
      (Has(req[t].trace, "goto") /\ Get(req[t].body).url \in StatusUrls) =>
        /\ req[t].pc = "failed" =>
             req[t].trace[Len(req[t].trace)] \in {"screenshot!", "close!"}
        /\ req[t].pc = "done" =>
             /\ Rendered(t)
             /\ req[t].trace = StepsOf(Get(req[t].body))
             /\ Item(t).pageStatusCode = StatusOf(Get(req[t].body).url)
             /\ Item(t).content = Html(Get(req[t].body).url)
             /\ Item(t).pageStatusCode >= 400 => Item(t).pageError # None

C5_Witness ==
    \E t \in Tasks :
      /\ req[t].pc = "done"
      /\ Item(t).pageStatusCode = 404
      /\ Item(t).pageError = Some("Not Found")
      /\ Item(t).content = "<html>http://site.test/404</html>"

StepRank(step) ==
    CASE step = "set_extra_http_headers" -> 1
      [] step = "goto" -> 2
      [] step = "wait_for_timeout" -> 3
      [] step = "content" -> 4
      [] step = "screenshot" -> 5
      [] OTHER -> 0

\* The task is past the point where the wait is or is not awaited.
PastWait(t) == req[t].pc \in {"content", "screenshot", "open", "close", "done", "failed"}

\* C7: the steps of a request occur in the order headers, navigate, wait,
\* extract, capture, and the wait is run if and only if wait_after_load > 0
\* and the navigation succeeded.
C7_StepOrderAndWait ==
    \A t \in Tasks :
      /\ \A i, j \in DOMAIN req[t].trace :
           (i < j /\ StepRank(req[t].trace[i]) > 0 /\ StepRank(req[t].trace[j]) > 0)
             => StepRank(req[t].trace[i]) < StepRank(req[t].trace[j])
      /\ PastWait(t) =>
           (Has(req[t].trace, "wait_for_timeout")
              <=> (Get(req[t].body).wait_after_load > 0 /\ Has(req[t].trace, "goto")))

\* C8: a context has a proxy if and only if the three proxy globals are all
\* set and non-empty, the proxy is then those three values, and creating the
\* context raises nothing whatever the three are.
C8_ProxyIffAllThree ==
    \A t \in Tasks :
      req[t].pc \notin {"idle", "new_context"} =>
        /\ req[t].trace[1] = "new_context"
        /\ req[t].context # None
        /\ contexts[Get(req[t].context)].proxy # None
             <=> (\A v \in {PROXY_SERVER, PROXY_USERNAME, PROXY_PASSWORD} :
                    v \notin {None, Some("")})
        /\ contexts[Get(req[t].context)].proxy # None =>
             contexts[Get(req[t].context)].proxy =
               Some([server |-> PROXY_SERVER, username |-> PROXY_USERNAME,
                     password |-> PROXY_PASSWORD])

C8_Witness ==
    \E t \in Tasks :
      /\ req[t].pc = "done"
      /\ PROXY_SERVER = Some("http://proxy.test:3128")
      /\ PROXY_USERNAME = Some("")
      /\ PROXY_PASSWORD = None
      /\ contexts[Get(req[t].context)].proxy = None

\* C9: a RenderResult carries a screenshot if and only if the request set
\* screenshot or screenshot_full_page, whatever its status code.
C9_ScreenshotIffRequested ==
    \A t \in Tasks :
      Rendered(t) =>
        ("screenshot" \in DOMAIN Item(t)
           <=> (Get(req[t].body).screenshot \/ Get(req[t].body).screenshot_full_page))

C9_Witness ==
    \E t \in Tasks :
      /\ Rendered(t)
      /\ Item(t).pageStatusCode = 404
      /\ ~Get(req[t].body).screenshot
      /\ Get(req[t].body).screenshot_full_page
      /\ "screenshot" \in DOMAIN Item(t)

\* C10: whenever no request is in flight, no screenshot file is left in the
\* temporary directory.
C10_NoScreenshotRetained ==
    (\A t \in Tasks : ~InFlight(t)) => DOMAIN files = {}

\* C11: a request whose context close failed still returns its RenderResult,
\* and the close is attempted once.
C11_CloseFailureSwallowed ==
    \A t \in Tasks :
      /\ Count(req[t].trace, {"close", "close!"}) <= 1
      /\ (Terminated(t) /\ Has(req[t].trace, "close!")) => Rendered(t)

\* The path of url: its pieces before the query.
PathOf(url) ==
    IF \E i \in DOMAIN url : url[i] = "?"
    THEN SubSeq(url, 1, (CHOOSE i \in DOMAIN url : url[i] = "?") - 1)
    ELSE url

\* The path of url ends in "." and one of the listed media extensions.
MediaPath(url) ==
    /\ Len(PathOf(url)) >= 2
    /\ PathOf(url)[Len(PathOf(url)) - 1] = "."
    /\ PathOf(url)[Len(PathOf(url))] \in
         {"png", "jpg", "jpeg", "gif", "svg", "mp3", "mp4", "avi", "flac", "ogg",
          "wav", "webm"}

\* The page of the task has loaded and made its requests.
Loaded(t) == req[t].page_status_code # None

\* C16: with BLOCK_MEDIA the rule is on the request's own context before its
\* page is opened, and a request of the page is aborted exactly when its
\* resource path ends in a listed media extension; without BLOCK_MEDIA no
\* request is aborted.
C16_MediaBlocked ==
    \A t \in Tasks :
      Loaded(t) =>
        /\ BLOCK_MEDIA =>
             /\ \E i, j \in DOMAIN req[t].trace :
                  i < j /\ req[t].trace[i] = "route" /\ req[t].trace[j] = "new_page"
             /\ contexts[Get(req[t].context)].routes # {}
             /\ \A u \in PageRequests :
                  /\ MediaPath(u) <=> u \in Get(req[t].page).aborted
                  /\ ~MediaPath(u) <=> u \in Get(req[t].page).fetched
        /\ ~BLOCK_MEDIA => Get(req[t].page).aborted = {}

\* The marks a task's own raising steps leave on its trace.
OwnFailures ==
    {"set_extra_http_headers!", "goto!", "status!", "screenshot!", "close!"}

\* The navigation of the task's own request has been attempted.
Navigated(t) == Has(req[t].trace, "goto") \/ Has(req[t].trace, "goto!")

\* The outcome of navigating to the task's own URL with its own timeout.
OwnNavigation(t) == Navigate(Get(req[t].body).url, Get(req[t].body).timeout)

\* C12: under any interleaving a request fails at its navigation exactly when
\* its own navigation raises, a request fails only at a step of its own, and
\* a request whose navigation returned carries the status of its own page.
C12_SiblingsUnaffected ==
    \A t \in Tasks :
      /\ Has(req[t].trace, "goto!") <=> (Navigated(t) /\ OwnNavigation(t).kind = "error")
      /\ req[t].pc = "failed" =>
           /\ Len(req[t].trace) > 0
           /\ req[t].trace[Len(req[t].trace)] \in OwnFailures
      /\ (Has(req[t].trace, "goto") /\ OwnNavigation(t).kind = "response") =>
           /\ req[t].page_status_code = Some(OwnNavigation(t).status)
           /\ req[t].pc \notin {"idle", "new_context", "route", "new_page",
                                "set_extra_http_headers", "goto"}

\* A navigation timed out while a request that began earlier is still going on.
C12_Witness ==
    \E t, u \in Tasks :
      /\ t # u
      /\ Has(req[t].trace, "goto!")
      /\ req[u].pc = "close"
      /\ Get(req[u].context) < Get(req[t].context)

\* The context the task holds.
ContextOf(t) == req[t].context

\* C13: no two requests hold the same context, a request's page is in its
\* own context, every request that created a context created a new one, and
\* the context of a request in flight has not been closed by another.
C13_ContextExclusive ==
    /\ \A t, u \in Tasks :
         (t # u /\ ContextOf(t) # None /\ ContextOf(u) # None)
           => ContextOf(t) # ContextOf(u)
    /\ \A t \in Tasks :
         /\ req[t].page # None => Get(req[t].page).context = Get(ContextOf(t))
         /\ (InFlight(t) /\ ContextOf(t) # None) => contexts[Get(ContextOf(t))].open
         /\ (BLOCK_MEDIA /\ InFlight(t) /\ Has(req[t].trace, "route"))
              => contexts[Get(ContextOf(t))].routes # {}
    /\ Len(contexts) = accepted - Cardinality({t \in Tasks : req[t].pc = "new_context"})

\* Two requests in flight, each with a context of its own, one of them closed
\* and answered.
C13_Witness ==
    \E t, u \in Tasks :
      /\ t # u
      /\ req[t].pc = "done"
      /\ InFlight(u)
      /\ ContextOf(u) # None
      /\ ~contexts[Get(ContextOf(t))].open
      /\ contexts[Get(ContextOf(u))].open

\* C19: no two requests in flight use the same temporary file, and the
\* screenshot a request returns is the image of its own page.
C19_ScreenshotIsOwn ==
    /\ \A t, u \in Tasks :
         (t # u /\ InFlight(t) /\ InFlight(u)
            /\ req[t].tmp_file # None /\ req[u].tmp_file # None)
           => req[t].tmp_file # req[u].tmp_file
    /\ \A t \in Tasks :
         (Rendered(t) /\ "screenshot" \in DOMAIN Item(t)) =>
           Item(t).screenshot =
             b64encode(PngOf(Get(req[t].body).url, Get(req[t].body).screenshot_full_page))

\* The second half of C19 alone: a returned screenshot is not the requester's.
C19_ForeignScreenshot ==
    \E t \in Tasks :
      /\ Rendered(t)
      /\ "screenshot" \in DOMAIN Item(t)
      /\ Item(t).screenshot #
           b64encode(PngOf(Get(req[t].body).url, Get(req[t].body).screenshot_full_page))

\* C14: a step that changes a request leaves the browser handle as it was,
\* and the handle changes only as the application starts serving or stops.
C14_BrowserUnchangedByRequests ==
    [][ /\ (\E t \in DOMAIN req : req'[t] # req[t]) => browser' = browser
        /\ browser' # browser =>
             \/ app = "starting" /\ app' = "serving"
             \/ app = "serving" /\ app' = "stopped" ]_vars

\* A request has failed and left its context open; the browser is the one
\* launched at startup.
C14_Witness ==
    \E t \in Tasks :
      /\ req[t].pc = "failed"
      /\ Has(req[t].trace, "screenshot!")
      /\ app = "serving"
      /\ browser = Some([connected |-> TRUE])

\* The number of pixel rows in the file the task captured to.
CapturedRows(t) == Len(files[Get(req[t].tmp_file)]) - 1

\* C18: a capture has the height of the whole page when screenshot_full_page
\* is set and of the viewport otherwise, whatever the screenshot flag is,
\* and the rendered screenshot is the encoding of that capture.
C18_FullPageIffFlag ==
    \A t \in Tasks :
      /\ req[t].pc = "open" =>
           /\ Get(req[t].tmp_file) \in DOMAIN files
           /\ CapturedRows(t) =
                IF Get(req[t].body).screenshot_full_page
                THEN PageHeight(Get(req[t].body).url)
                ELSE ViewportHeight
      /\ (Rendered(t) /\ "screenshot" \in DOMAIN Item(t)) =>
           Item(t).screenshot =
             b64encode(<<137>> \o
                       [i \in 1..(IF Get(req[t].body).screenshot_full_page
                                  THEN PageHeight(Get(req[t].body).url)
                                  ELSE ViewportHeight) |-> 16])

\* A full-page capture taken with screenshot false, taller than the viewport.
C18_Witness ==
    \E t \in Tasks :
      /\ req[t].pc = "open"
      /\ ~Get(req[t].body).screenshot
      /\ Get(req[t].body).screenshot_full_page
      /\ CapturedRows(t) > ViewportHeight

\* The launch of the browser at startup has completed.
LaunchCompleted == app \in {"serving", "stopped"}

\* The probe just answered was for the given path.
Answered(path) == probe' # probe /\ Get(probe').path = path

\* C15: a readiness probe answers ok/200 when the launch at startup has
\* completed and Service Unavailable/503 otherwise, so never ok once the
\* launch has failed; a liveness probe answers ok/200 in every state.
C15_ReadinessIffLaunched ==
    /\ [][ /\ Answered("/health/readiness") =>
                Get(probe').response = IF LaunchCompleted THEN Ok ELSE ServiceUnavailable
           /\ Answered("/health/liveness") => Get(probe').response = Ok ]_vars
    /\ [](app = "failed" =>
            probe # Some([path |-> "/health/readiness", response |-> Ok]))

\* The launch failed and readiness answered Service Unavailable.
C15_Witness ==
    /\ app = "failed"
    /\ probe = Some([path |-> "/health/readiness", response |-> ServiceUnavailable])

\* C17: every request in flight eventually ends, done or failed.
C17_EveryRequestTerminates ==
    \A t \in 1..NTasks : InFlight(t) ~> Terminated(t)

====
